---- MODULE Spec2Model ----
(***************************************************************************)
(* Release specification handling of create-release-branch:                *)
(*   generateReleaseSpecificationTemplateForMonorepo,                      *)
(*   waitForUserToEditReleaseSpecification,                                *)
(*   validateReleaseSpecification                                          *)
(* (src/src/release-specification.ts), with the file on disk that the      *)
(* user (or the functional-test editor script) rewrites in between.        *)
(***************************************************************************)
EXTENDS Integers, Sequences, FiniteSets, TLC

VARIABLES
  project,    \* the Project: rootPackage and workspacePackages (in key order)
  pc,         \* position of the workflow: start, failed, generated, written,
              \* waiting, edited, done
  template,   \* outcome of generateReleaseSpecificationTemplateForMonorepo
  file,       \* lines of the release spec file at releaseSpecificationPath
  result,     \* outcome of validateReleaseSpecification
  editor,     \* the editor process: how often it was launched, whether it
              \* runs or has exited, and the error it exited with
  stdout,     \* what was written to the stdout stream, in order
  wait        \* the promise of waitForUserToEditReleaseSpecification

vars == <<project, pc, template, file, result, editor, stdout, wait>>

(***************************************************************************)
(* Bounds of the model.                                                    *)
(***************************************************************************)
\* most entries the user writes under `packages:`
MaxEntries == 2

(***************************************************************************)
(* JavaScript values that occur in a parsed release spec: null, undefined  *)
(* and strings.                                                            *)
(***************************************************************************)
NULL == [k |-> "null", s |-> ""]
UNDEFINED == [k |-> "undefined", s |-> ""]
Str(s) == [k |-> "string", s |-> s]

\* JavaScript truthiness of null | undefined | string: `!value` is its negation
Truthy(v) == v.k = "string" /\ v.s # ""

SKIP_PACKAGE_DIRECTIVE == NULL
INTENTIONALLY_SKIP_PACKAGE_DIRECTIVE == Str("intentionally-skip")
IncrementableVersionParts == {"major", "minor", "patch"}

\* hasProperty(IncrementableVersionParts, value)
IsIncrementableVersionPart(v) == v.k = "string" /\ v.s \in IncrementableVersionParts

(***************************************************************************)
(* Semantic versions.  A version string is valid when it is, character for *)
(* character, a strict major.minor.patch version; parsing yields the       *)
(* triple of its numbers.                                                  *)
(***************************************************************************)
VersionStrings == {"1.1.0", "1.2.0", "2.0.0"}

SemVerParse(s) ==
  CASE s = "1.1.0" -> <<1, 1, 0>>
    [] s = "1.2.0" -> <<1, 2, 0>>
    [] s = "2.0.0" -> <<2, 0, 0>>

isValidSemver(v) == v.k = "string" /\ v.s \in VersionStrings

\* new SemVer(a).compare(b): -1, 0 or 1
SemVerCompare(a, b) ==
  LET x == SemVerParse(a)
      y == SemVerParse(b)
  IN  IF x[1] # y[1] THEN (IF x[1] < y[1] THEN -1 ELSE 1)
      ELSE IF x[2] # y[2] THEN (IF x[2] < y[2] THEN -1 ELSE 1)
      ELSE IF x[3] # y[3] THEN (IF x[3] < y[3] THEN -1 ELSE 1)
      ELSE 0

\* semver's diff(a, b) for release versions: the first part that differs
SemVerDiff(a, b) ==
  LET x == SemVerParse(a)
      y == SemVerParse(b)
  IN  IF x[1] # y[1] THEN "major"
      ELSE IF x[2] # y[2] THEN "minor"
      ELSE IF x[3] # y[3] THEN "patch"
      ELSE "none"

(***************************************************************************)
(* The set of elements of a sequence.                                      *)
(***************************************************************************)
Range(s) == {s[i] : i \in DOMAIN s}

(***************************************************************************)
(* The Project.  workspacePackages is a JavaScript object: a sequence of   *)
(* packages in key order, each keyed by its own name.  dependencies and    *)
(* peerDependencies are given by their keys, in order.                     *)
(***************************************************************************)
Package(name, version, dependencies, peerDependencies, changed) ==
  [name |-> name, version |-> version, dependencies |-> dependencies,
   peerDependencies |-> peerDependencies,
   hasChangesSinceLatestRelease |-> changed]

\* a name that is no workspace package: a dependency from the registry
ExternalName == "x"

\* the projects the model starts from: b depends on a, c on b and (as a peer)
\* on a, a on a package outside the project; any of a, b, c may have changed
Projects ==
  { [rootPackage |-> "root",
     workspacePackages |->
       << Package("a", "1.1.0", <<ExternalName>>, <<>>, ca),
          Package("b", "2.0.0", <<"a">>, <<>>, cb),
          Package("c", "1.2.0", <<"b">>, <<"a">>, cc) >>]
    : ca \in BOOLEAN, cb \in BOOLEAN, cc \in BOOLEAN }

WorkspaceNames(proj) ==
  [i \in DOMAIN proj.workspacePackages |-> proj.workspacePackages[i].name]

\* project.workspacePackages[name] !== undefined
IsWorkspacePackage(proj, name) ==
  \E i \in DOMAIN proj.workspacePackages : proj.workspacePackages[i].name = name

\* project.workspacePackages[name], for a name that is a key
WorkspacePackage(proj, name) ==
  proj.workspacePackages[CHOOSE i \in DOMAIN proj.workspacePackages :
                           proj.workspacePackages[i].name = name]

\* hasProperty(dependencies, name) || hasProperty(peerDependencies, name)
DependsOn(pkg, name) ==
  name \in Range(pkg.dependencies) \/ name \in Range(pkg.peerDependencies)

\* Object.keys({ ...dependencies, ...peerDependencies })
DependencyKeys(pkg) ==
  pkg.dependencies \o
    SelectSeq(pkg.peerDependencies, LAMBDA key : key \notin Range(pkg.dependencies))

(***************************************************************************)
(* The release spec file, line by line.  A line is a comment (`# ...`), an *)
(* empty line, a top-level key (`packages:` with or without a scalar after *)
(* it), an indented mapping entry (`  name: text`), an indented list item  *)
(* (`  - text`), a top-level scalar, a top-level list item, or text that   *)
(* is no YAML (`{`).                                                       *)
(***************************************************************************)
Line(kind, name, text) == [kind |-> kind, name |-> name, text |-> text]
CommentLine == Line("comment", "", "")
EmptyLine == Line("empty", "", "")
KeyLine(name, text) == Line("key", name, text)
EntryLine(name, text) == Line("entry", name, text)
ItemLine(text) == Line("item", "", text)
ScalarLine(text) == Line("scalar", "", text)
TopItemLine(text) == Line("topitem", "", text)
GarbageLine == Line("garbage", "", "")

\* the line begins with `#`
StartsWithHash(line) == line.kind = "comment"

\* the line holds at least one space character
ContainsSpace(line) ==
  \/ line.kind \in {"comment", "entry", "item", "topitem"}
  \/ line.kind = "key" /\ line.text # ""

\* /^#|[ ]+/u.test(line): begins with `#`, or holds a space anywhere
MatchesUnusableLinePattern(line) == StartsWithHash(line) \/ ContainsSpace(line)

(***************************************************************************)
(* YAML scalars.  Plain `null`, `~` and nothing at all are null; a quoted  *)
(* empty string `''` is the empty string; other text is itself.            *)
(***************************************************************************)
YamlScalar(text) ==
  IF text \in {"", "null", "~"} THEN NULL
  ELSE IF text = "''" THEN Str("")
  ELSE Str(text)

\* YAML.stringify of null or a string, as a scalar
YamlStringifyScalar(v) ==
  IF v.k = "null" THEN "null"
  ELSE IF v.s = "" THEN "''"
  ELSE v.s

(***************************************************************************)
(* YAML.parse of the file, for files of one top-level node.  The result is *)
(*   [t |-> "throw"]                      the text is no YAML              *)
(*   [t |-> "null"], [t |-> "string"], [t |-> "array"]   not an object     *)
(*   [t |-> "object", hasPackages, packages]                               *)
(* where packages is [t |-> "null"], [t |-> "string", chars],              *)
(* [t |-> "array", items] or [t |-> "map", entries], entries and items in  *)
(* document order, an entry being <<name, value>>.                         *)
(***************************************************************************)
ContentLines(lines) ==
  SelectSeq(lines, LAMBDA line : line.kind \notin {"comment", "empty"})

\* the one-character strings of a scalar, as Object.entries sees a string
Chars(text) ==
  CASE text = "" -> <<>>
    [] text = "ab" -> <<"a", "b">>
    [] text = "bogus" -> <<"b", "o", "g", "u", "s">>

YamlNested(key, rest) ==
  IF rest = <<>> /\ key.text = "{}" THEN [t |-> "map", entries |-> <<>>]
  ELSE IF rest = <<>>
  THEN (LET v == YamlScalar(key.text)
        IN  IF v.k = "null" THEN [t |-> "null"]
            ELSE [t |-> "string", chars |-> Chars(v.s)])
  ELSE IF key.text # "" THEN [t |-> "throw"]
  ELSE IF \A i \in DOMAIN rest : rest[i].kind = "entry"
  THEN (IF \E i, j \in DOMAIN rest : i # j /\ rest[i].name = rest[j].name
        THEN [t |-> "throw"]   \* "Map keys must be unique"
        ELSE [t |-> "map",
              entries |-> [i \in DOMAIN rest |->
                             <<rest[i].name, YamlScalar(rest[i].text)>>]])
  ELSE IF \A i \in DOMAIN rest : rest[i].kind = "item"
  THEN [t |-> "array",
        items |-> [i \in DOMAIN rest |-> YamlScalar(rest[i].text)]]
  ELSE [t |-> "throw"]

YamlParse(lines) ==
  LET content == ContentLines(lines)
  IN  IF \E i \in DOMAIN content : content[i].kind = "garbage"
      THEN [t |-> "throw"]
      ELSE IF content = <<>> THEN [t |-> "null"]
      ELSE IF content[1].kind = "scalar"
      THEN (IF Len(content) > 1 THEN [t |-> "throw"]
            ELSE IF YamlScalar(content[1].text).k = "null" THEN [t |-> "null"]
            ELSE [t |-> "string"])
      ELSE IF content[1].kind = "topitem"
      THEN (IF \A i \in DOMAIN content : content[i].kind = "topitem"
            THEN [t |-> "array"] ELSE [t |-> "throw"])
      ELSE IF content[1].kind = "key"
      THEN (LET nested == YamlNested(content[1], Tail(content))
            IN  IF nested.t = "throw" THEN [t |-> "throw"]
                ELSE IF content[1].name = "packages"
                THEN [t |-> "object", hasPackages |-> TRUE, packages |-> nested]
                ELSE [t |-> "object", hasPackages |-> FALSE,
                      packages |-> [t |-> "null"]])
      ELSE [t |-> "throw"]

\* YAML.stringify({ packages }) for a mapping of names to null or strings
YamlStringifyPackages(entries) ==
  <<KeyLine("packages", "")>> \o
  [i \in DOMAIN entries |-> EntryLine(entries[i][1], YamlStringifyScalar(entries[i][2]))]

(***************************************************************************)
(* generateReleaseSpecificationTemplateForMonorepo                         *)
(***************************************************************************)
\* lines of `instructions`: ten lines of explanation and the two lines of
\* afterEditingInstructions, each beginning with `#`
InstructionLineCount == 12

Instructions == [i \in 1..InstructionLineCount |-> CommentLine]

\* a generator that forgets the filter and lists every workspace package
AllWorkspacePackages(proj) == proj.workspacePackages

\* Object.values(workspacePackages).filter((pkg) => pkg.hasChangesSinceLatestRelease)
ChangedWorkspacePackages(proj) ==
  SelectSeq(proj.workspacePackages, LAMBDA pkg : pkg.hasChangesSinceLatestRelease)

\* the text returned, as lines; [threw |-> TRUE] when nothing has changed
generateReleaseSpecificationTemplateForMonorepo(proj) ==
  LET changedWorkspacePackages == ChangedWorkspacePackages(proj)
      packages == [i \in DOMAIN changedWorkspacePackages |->
                     <<changedWorkspacePackages[i].name, SKIP_PACKAGE_DIRECTIVE>>]
  IN  IF Len(changedWorkspacePackages) = 0
      THEN [threw |-> TRUE, lines |-> <<>>]
      ELSE [threw |-> FALSE,
            lines |-> Instructions \o <<EmptyLine>> \o
                      YamlStringifyPackages(packages) \o <<EmptyLine>>]

(***************************************************************************)
(* validateReleaseSpecification                                            *)
(***************************************************************************)
\* isObject(value): a non-null object that is no array
isObject(parsed) == parsed.t = "object"

\* Object.entries(packages) for a mapping, a string or an array
ObjectEntries(packages) ==
  CASE packages.t = "map" -> packages.entries
    [] packages.t = "string" ->
         [i \in DOMAIN packages.chars |-> <<ToString(i - 1), Str(packages.chars[i])>>]
    [] packages.t = "array" ->
         [i \in DOMAIN packages.items |-> <<ToString(i - 1), packages.items[i]>>]

\* unvalidatedReleaseSpecification.packages[name], for a package name
PackagesLookup(packages, name) ==
  IF packages.t = "map" /\ \E i \in DOMAIN packages.entries : packages.entries[i][1] = name
  THEN packages.entries[CHOOSE i \in DOMAIN packages.entries :
                          packages.entries[i][1] = name][2]
  ELSE UNDEFINED

\* contents.split('\n').findIndex((line) => !/^#|[ ]+/u.test(line)): 0-based, -1
\* when every line matches
IndexOfFirstUsableLine(contents) ==
  IF \E i \in DOMAIN contents : ~MatchesUnusableLinePattern(contents[i])
  THEN (CHOOSE i \in DOMAIN contents :
          /\ ~MatchesUnusableLinePattern(contents[i])
          /\ \A j \in 1..(i - 1) : MatchesUnusableLinePattern(contents[j])) - 1
  ELSE -1

\* an element of `errors`; lineNumber -1 stands for no lineNumber, and names
\* are the packages the message lists
ValidationError(kind, name, lineNumber, names) ==
  [kind |-> kind, name |-> name, lineNumber |-> lineNumber, names |-> names]

NoLineNumber == -1

UnknownPackageErrors(proj, name, lineNumber) ==
  IF ~IsWorkspacePackage(proj, name)
  THEN <<ValidationError("unknownPackage", name, lineNumber, <<>>)>>
  ELSE <<>>

\* a validator that forgets that null (skip) is a directive
InvalidSpecifierErrorsRejectingSkip(name, value, lineNumber) ==
  IF /\ value # INTENTIONALLY_SKIP_PACKAGE_DIRECTIVE
     /\ ~IsIncrementableVersionPart(value)
     /\ ~isValidSemver(value)
  THEN <<ValidationError("invalidSpecifier", name, lineNumber, <<>>)>>
  ELSE <<>>

InvalidSpecifierErrors(name, value, lineNumber) ==
  IF /\ value # SKIP_PACKAGE_DIRECTIVE
     /\ value # INTENTIONALLY_SKIP_PACKAGE_DIRECTIVE
     /\ ~IsIncrementableVersionPart(value)
     /\ ~isValidSemver(value)
  THEN <<ValidationError("invalidSpecifier", name, lineNumber, <<>>)>>
  ELSE <<>>

\* reads changedPackage.validatedManifest: for a known package only
VersionComparisonErrors(proj, name, value, lineNumber) ==
  IF isValidSemver(value)
  THEN (LET comparison == SemVerCompare(value.s, WorkspacePackage(proj, name).version)
        IN  IF comparison = 0
            THEN <<ValidationError("alreadyAtVersion", name, lineNumber, <<>>)>>
            ELSE IF comparison < 0
            THEN <<ValidationError("greaterVersion", name, lineNumber, <<>>)>>
            ELSE <<>>)
  ELSE <<>>

\* the entry is a major bump; reached with a known package when value is a version
IsMajorBump(proj, name, value) ==
  \/ value = Str("major")
  \/ /\ isValidSemver(value)
     /\ SemVerDiff(WorkspacePackage(proj, name).version, value.s) = "major"

\* a validator that takes a dependent for listed only when it is released
MissingDependentNamesUnlessReleased(proj, packages, name) ==
  SelectSeq(WorkspaceNames(proj),
            LAMBDA dependentName :
              /\ DependsOn(WorkspacePackage(proj, dependentName), name)
              /\ WorkspacePackage(proj, dependentName).hasChangesSinceLatestRelease
              /\ LET v == PackagesLookup(packages, dependentName)
                 IN  ~(IsIncrementableVersionPart(v) \/ isValidSemver(v)))

MissingDependentNames(proj, packages, name) ==
  SelectSeq(WorkspaceNames(proj),
            LAMBDA dependentName :
              /\ DependsOn(WorkspacePackage(proj, dependentName), name)
              /\ WorkspacePackage(proj, dependentName).hasChangesSinceLatestRelease
              /\ ~Truthy(PackagesLookup(packages, dependentName)))

MissingDependentsErrors(proj, packages, name, value) ==
  IF IsMajorBump(proj, name, value)
  THEN (LET missingDependentNames == MissingDependentNames(proj, packages, name)
        IN  IF Len(missingDependentNames) > 0
            THEN <<ValidationError("missingDependents", name, NoLineNumber,
                                   missingDependentNames)>>
            ELSE <<>>)
  ELSE <<>>

\* a validator that asks for an entry of every declared dependency
MissingDependenciesOfAnyKind(proj, packages, name) ==
  SelectSeq(DependencyKeys(WorkspacePackage(proj, name)),
            LAMBDA dependency : ~Truthy(PackagesLookup(packages, dependency)))

MissingDependencies(proj, packages, name) ==
  SelectSeq(DependencyKeys(WorkspacePackage(proj, name)),
            LAMBDA dependency :
              /\ IsWorkspacePackage(proj, dependency)
              /\ WorkspacePackage(proj, dependency).hasChangesSinceLatestRelease
              /\ ~Truthy(PackagesLookup(packages, dependency)))

MissingDependenciesErrors(proj, packages, name, value) ==
  IF /\ IsWorkspacePackage(proj, name)
     /\ Truthy(value)
     /\ (IsIncrementableVersionPart(value) \/ isValidSemver(value))
  THEN (LET missingDependencies == MissingDependencies(proj, packages, name)
        IN  IF Len(missingDependencies) > 0
            THEN <<ValidationError("missingDependencies", name, NoLineNumber,
                                   missingDependencies)>>
            ELSE <<>>)
  ELSE <<>>

\* a callback that checks the dependencies before the dependents
ValidateEntryDependenciesFirst(proj, packages, name, value, lineNumber) ==
  IF isValidSemver(value) /\ ~IsWorkspacePackage(proj, name)
  THEN [threw |-> TRUE, errors |-> <<>>]
  ELSE [threw |-> FALSE,
        errors |-> UnknownPackageErrors(proj, name, lineNumber) \o
                   InvalidSpecifierErrors(name, value, lineNumber) \o
                   VersionComparisonErrors(proj, name, value, lineNumber) \o
                   MissingDependenciesErrors(proj, packages, name, value) \o
                   MissingDependentsErrors(proj, packages, name, value)]

\* one call of the forEach callback: the errors it pushes, or threw = TRUE when
\* it reads `validatedManifest` of the undefined changedPackage
ValidateEntry(proj, packages, name, value, lineNumber) ==
  IF isValidSemver(value) /\ ~IsWorkspacePackage(proj, name)
  THEN [threw |-> TRUE, errors |-> <<>>]
  ELSE [threw |-> FALSE,
        errors |-> UnknownPackageErrors(proj, name, lineNumber) \o
                   InvalidSpecifierErrors(name, value, lineNumber) \o
                   VersionComparisonErrors(proj, name, value, lineNumber) \o
                   MissingDependentsErrors(proj, packages, name, value) \o
                   MissingDependenciesErrors(proj, packages, name, value)]

RECURSIVE ValidateEntries(_, _, _, _, _, _)
\* the forEach over Object.entries(packages), from entry i on, errors so far in acc
ValidateEntries(proj, packages, entries, indexOfFirstUsableLine, i, acc) ==
  IF i > Len(entries) THEN [threw |-> FALSE, errors |-> acc]
  ELSE LET index == i - 1
           lineNumber == indexOfFirstUsableLine + index + 2
           one == ValidateEntry(proj, packages, entries[i][1], entries[i][2], lineNumber)
       IN  IF one.threw THEN [threw |-> TRUE, errors |-> acc]
           ELSE ValidateEntries(proj, packages, entries, indexOfFirstUsableLine,
                                i + 1, acc \o one.errors)

\* a value of ReleaseSpecification.packages
VersionSpecifier(value) ==
  IF IsIncrementableVersionPart(value)
  THEN [k |-> "part", part |-> value.s, version |-> <<>>]
  ELSE IF isValidSemver(value)
  THEN [k |-> "semver", part |-> "", version |-> SemVerParse(value.s)]
  ELSE [k |-> "null", part |-> "", version |-> <<>>]   \* semver.parse gives null

\* a reduce that drops the null entries only
ReleasePackagesKeepingIntentionalSkips(entries) ==
  LET kept == SelectSeq(entries, LAMBDA entry : entry[2] # SKIP_PACKAGE_DIRECTIVE)
  IN  [i \in DOMAIN kept |-> <<kept[i][1], VersionSpecifier(kept[i][2])>>]

\* the reduce over Object.keys(packages) that builds the returned packages
ReleasePackages(entries) ==
  LET kept == SelectSeq(entries,
                        LAMBDA entry : /\ entry[2] # SKIP_PACKAGE_DIRECTIVE
                                       /\ entry[2] # INTENTIONALLY_SKIP_PACKAGE_DIRECTIVE)
  IN  [i \in DOMAIN kept |-> <<kept[i][1], VersionSpecifier(kept[i][2])>>]

Outcome(kind, reason, errors, packages, path) ==
  [kind |-> kind, reason |-> reason, errors |-> errors, packages |-> packages,
   path |-> path]

\* kind: "returned" (a ReleaseSpecification), "malformed" (the YAML or shape
\* failure), "invalid" (the aggregated errors), "typeError" (a TypeError thrown
\* by the JavaScript runtime; errors are then those pushed before the throw,
\* which are lost with the call)
validateReleaseSpecification(proj, releaseSpecificationPath, contents) ==
  LET indexOfFirstUsableLine == IndexOfFirstUsableLine(contents)
      parsed == YamlParse(contents)
  IN  IF parsed.t = "throw"
      THEN Outcome("malformed", "invalidYaml", <<>>, <<>>, "")
      ELSE IF ~isObject(parsed) \/ ~parsed.hasPackages
      THEN Outcome("malformed", "notAnObjectWithPackages", <<>>, <<>>, "")
      ELSE IF parsed.packages.t = "null"
      THEN Outcome("typeError", "Object.entries", <<>>, <<>>, "")
      ELSE LET entries == ObjectEntries(parsed.packages)
               checked == ValidateEntries(proj, parsed.packages, entries,
                                          indexOfFirstUsableLine, 1, <<>>)
           IN  IF checked.threw
               THEN Outcome("typeError", "validatedManifest", checked.errors, <<>>, "")
               ELSE IF Len(checked.errors) > 0
               THEN Outcome("invalid", "", checked.errors, <<>>, "")
               ELSE Outcome("returned", "", <<>>, ReleasePackages(entries),
                            releaseSpecificationPath)

(***************************************************************************)
(* What an editor can leave in the file.                                   *)
(***************************************************************************)
EntryNames == {"a", "b", "c", ExternalName}

DirectiveTexts ==
  {"null", "intentionally-skip", "major", "minor", "patch", "''", "bogus"}
    \cup VersionStrings

\* sequences of 1..MaxEntries entry lines with distinct names
EntryLineSeqs ==
  UNION { { s \in [1..n -> [kind : {"entry"}, name : EntryNames, text : DirectiveTexts]] :
              \A i, j \in 1..n : i # j => s[i].name # s[j].name }
          : n \in 1..MaxEntries }

\* documents whose `packages` is a mapping
MappingBodies ==
  { <<KeyLine("packages", "")>> \o s : s \in EntryLineSeqs }
    \cup { <<KeyLine("packages", "{}")>> }

\* documents that are no YAML, no object, lack `packages`, or whose `packages`
\* is null, a string or a list
OtherBodies ==
  { <<GarbageLine>>,
    <<>>,
    <<ScalarLine("bogus")>>,
    <<TopItemLine("a")>>,
    <<KeyLine("other", "bogus")>>,
    <<KeyLine("packages", "")>>,
    <<KeyLine("packages", "null")>>,
    <<KeyLine("packages", "ab")>>,
    <<KeyLine("packages", "''")>>,
    <<KeyLine("packages", ""), ItemLine("a")>>,
    <<KeyLine("packages", ""), ItemLine("null"), ItemLine("major")>>,
    <<KeyLine("packages", ""), EntryLine("a", "major"), EntryLine("a", "minor")>> }

\* the editor keeps the instructions of the template or writes plain YAML
Headers == { Instructions \o <<EmptyLine>>, <<>> }

EditedFiles == { h \o b : h \in Headers, b \in MappingBodies \cup OtherBodies }

(***************************************************************************)
(* The workflow.                                                           *)
(***************************************************************************)
ReleaseSpecificationPath == "/tmp/RELEASE_SPEC"

NoOutcome == Outcome("none", "", <<>>, <<>>, "")

\* the editor command has not failed
NoError == [k |-> "none", s |-> ""]

\* the errors the promise of the editor command rejects with: the command is
\* not found by the shell, the editor exits non-zero, the user force-quits it
CommandErrors ==
  { [k |-> "error", s |-> message] :
      message \in {"exit code 127", "exit code 1", "killed by SIGKILL"} }

WaitingMessage == "Waiting for the release spec to be edited..."
ClearLine == "\\r\\u001B[K"

wrapError(message, originalError) == [message |-> message, cause |-> originalError]

\* a wait that drops the error of the editor command
SettledWaitSwallowingError(caughtError) ==
  [state |-> "resolved", error |-> UNDEFINED]

\* how the promise of waitForUserToEditReleaseSpecification settles
SettledWait(caughtError) ==
  IF caughtError # UNDEFINED
  THEN [state |-> "rejected",
        error |-> wrapError("Encountered an error while waiting for the release spec to be edited.",
                            caughtError)]
  ELSE [state |-> "resolved", error |-> UNDEFINED]

\* what the editor saves while the wait lasts
SavedFiles == { h \o b : h \in Headers, b \in OtherBodies }

Init ==
  /\ project \in Projects
  /\ pc = "start"
  /\ template = [threw |-> FALSE, lines |-> <<>>]
  /\ file = <<>>
  /\ result = NoOutcome
  /\ editor = [launches |-> 0, state |-> "idle", error |-> NoError]
  /\ stdout = <<>>
  /\ wait = [state |-> "notCalled", error |-> UNDEFINED]

\* the template is generated from the project
Generate ==
  /\ pc = "start"
  /\ template' = generateReleaseSpecificationTemplateForMonorepo(project)
  /\ pc' = IF template'.threw THEN "failed" ELSE "generated"
  /\ UNCHANGED <<project, file, result, editor, stdout, wait>>

\* the generated template is written to the release spec file
WriteTemplate ==
  /\ pc = "generated"
  /\ file' = template.lines
  /\ pc' = "written"
  /\ UNCHANGED <<project, template, result, editor, stdout, wait>>

\* an editor session that ends well, taken as one step: the file as the editor
\* leaves it
Edit ==
  /\ pc = "written"
  /\ file' \in EditedFiles
  /\ pc' = "edited"
  /\ UNCHANGED <<project, template, result, editor, stdout, wait>>

\* a validation that removes a release spec file it rejects
ValidateRemovingRejectedFile ==
  /\ pc \in {"written", "edited"}
  /\ result' = validateReleaseSpecification(project, ReleaseSpecificationPath, file)
  /\ file' = IF result'.kind = "returned" THEN file ELSE <<>>
  /\ pc' = "done"
  /\ UNCHANGED <<project, template, editor, stdout, wait>>

\* the file, edited or not, is read and validated against the project
Validate ==
  /\ pc \in {"written", "edited"}
  /\ result' = validateReleaseSpecification(project, ReleaseSpecificationPath, file)
  /\ pc' = "done"
  /\ UNCHANGED <<project, template, file, editor, stdout, wait>>

Next == Generate \/ WriteTemplate \/ Edit \/ Validate

Spec == Init /\ [][Next]_vars

(***************************************************************************)
(* The workflow with the editor session step by step.                      *)
(***************************************************************************)
\* waitForUserToEditReleaseSpecification up to its await: the editor command
\* is launched and the waiting message is written
WaitCall ==
  /\ pc = "written"
  /\ editor' = [launches |-> editor.launches + 1, state |-> "running", error |-> NoError]
  /\ stdout' = Append(stdout, WaitingMessage)
  /\ wait' = [state |-> "pending", error |-> UNDEFINED]
  /\ pc' = "waiting"
  /\ UNCHANGED <<project, template, file, result>>

\* the running editor saves the file
EditorSaves ==
  /\ editor.state = "running"
  /\ file' \in SavedFiles \ {file}
  /\ UNCHANGED <<project, pc, template, result, editor, stdout, wait>>

\* the editor process exits, well or with an error
EditorExits ==
  /\ editor.state = "running"
  /\ \E error \in CommandErrors \cup {NoError} :
       editor' = [editor EXCEPT !.state = "exited", !.error = error]
  /\ UNCHANGED <<project, pc, template, file, result, stdout, wait>>

\* waitForUserToEditReleaseSpecification from its await on: the promise of the
\* editor command has settled, the line is cleared, the error is wrapped
WaitSettle ==
  /\ pc = "waiting"
  /\ editor.state = "exited"
  /\ LET caughtError == IF editor.error # NoError THEN editor.error ELSE UNDEFINED
     IN  /\ stdout' = Append(stdout, ClearLine)
         /\ wait' = SettledWait(caughtError)
         /\ pc' = IF wait'.state = "rejected" THEN "failed" ELSE "edited"
  /\ UNCHANGED <<project, template, file, result, editor>>

EditorNext ==
  Generate \/ WriteTemplate \/ WaitCall \/ EditorSaves \/ EditorExits \/ WaitSettle
    \/ Validate

EditorSpec == Init /\ [][EditorNext]_vars

(***************************************************************************)
(* Vocabulary of the properties: the document as the user wrote it, the    *)
(* project, and the errors of the outcome.                                 *)
(***************************************************************************)
Done == pc = "done"

\* the file parses to an object whose `packages` is a mapping
MappingDocument ==
  LET parsed == YamlParse(file)
  IN  parsed.t = "object" /\ parsed.hasPackages /\ parsed.packages.t = "map"

\* the entries of `packages`, in document order, as <<name, value>>
DocumentEntries ==
  IF MappingDocument THEN YamlParse(file).packages.entries ELSE <<>>

DocumentNames == { DocumentEntries[i][1] : i \in DOMAIN DocumentEntries }

DocumentValue(name) ==
  (CHOOSE e \in Range(DocumentEntries) : e[1] = name)[2]

KnownNames == { p.name : p \in Range(project.workspacePackages) }

PackageNamed(name) == CHOOSE p \in Range(project.workspacePackages) : p.name = name

ChangedNames ==
  { p.name : p \in { q \in Range(project.workspacePackages) :
                       q.hasChangesSinceLatestRelease } }

\* the names a package declares in dependencies or peerDependencies
DeclaredBy(name) ==
  Range(PackageNamed(name).dependencies) \cup Range(PackageNamed(name).peerDependencies)

IsBumpKind(v) == v \in {Str("major"), Str("minor"), Str("patch")}
IsExplicitVersion(v) == v.k = "string" /\ v.s \in VersionStrings
IsRelease(v) == IsBumpKind(v) \/ IsExplicitVersion(v)

\* the name has no entry, or a null (skip) entry
OmittedOrSkipped(name) == name \notin DocumentNames \/ DocumentValue(name) = NULL

\* the name has no entry, or an entry that JavaScript takes for false
OmittedOrFalsy(name) ==
  name \notin DocumentNames \/ DocumentValue(name) \in {NULL, Str("")}

\* the entry asks for a major change of the known package `name`
AsksMajor(name, v) ==
  \/ v = Str("major")
  \/ IsExplicitVersion(v) /\ SemVerParse(v.s)[1] # SemVerParse(PackageNamed(name).version)[1]

\* the changed other workspace packages that declare `name` and are left out
OmittedDependents(name, Omitted(_)) ==
  { d \in (KnownNames \ {name}) :
      name \in DeclaredBy(d) /\ d \in ChangedNames /\ Omitted(d) }

\* the changed workspace packages that `name` declares and that are left out
OmittedDependencies(name, Omitted(_)) ==
  { d \in DeclaredBy(name) \cap ChangedNames : Omitted(d) }

ErrorsOf(kind, name) ==
  { i \in DOMAIN result.errors :
      result.errors[i].kind = kind /\ result.errors[i].name = name }

ErrorsAbout(name) == { i \in DOMAIN result.errors : result.errors[i].name = name }

\* the entry breaks one of the five rules of the validator
EntryViolatesARule(name, v) ==
  \/ name \notin KnownNames
  \/ ~(v = NULL \/ v = Str("intentionally-skip") \/ IsRelease(v))
  \/ /\ name \in KnownNames
     /\ IsExplicitVersion(v)
     /\ SemVerCompare(v.s, PackageNamed(name).version) <= 0
  \/ /\ name \in KnownNames
     /\ AsksMajor(name, v)
     /\ OmittedDependents(name, OmittedOrSkipped) # {}
  \/ /\ name \in KnownNames
     /\ IsRelease(v)
     /\ OmittedDependencies(name, OmittedOrSkipped) # {}

(***************************************************************************)
(* C1: validation never short-circuits: for every document whose           *)
(* `packages` is a mapping, the failure raised holds an error for every    *)
(* entry that violates a rule, also when an earlier entry has an error.    *)
(***************************************************************************)
C1_EveryViolationReported ==
  (Done /\ MappingDocument) =>
    \A i \in DOMAIN DocumentEntries :
      EntryViolatesARule(DocumentEntries[i][1], DocumentEntries[i][2]) =>
        /\ result.kind = "invalid"
        /\ ErrorsAbout(DocumentEntries[i][1]) # {}

(***************************************************************************)
(* C2: major-bump closure: for an entry naming a workspace package A, a    *)
(* missing-dependents error is recorded for A exactly when A's directive   *)
(* is a major change and the set M of other changed workspace packages     *)
(* that declare A and have no entry or a null entry is non-empty; the      *)
(* error names exactly M.                                                  *)
(***************************************************************************)
C2_MajorBumpClosure ==
  (Done /\ MappingDocument) =>
    \A i \in DOMAIN DocumentEntries :
      LET A == DocumentEntries[i][1]
          v == DocumentEntries[i][2]
      IN  A \in KnownNames =>
            LET M == OmittedDependents(A, OmittedOrSkipped)
            IN  /\ (ErrorsOf("missingDependents", A) # {}) <=> (AsksMajor(A, v) /\ M # {})
                /\ \A e \in ErrorsOf("missingDependents", A) :
                     Range(result.errors[e].names) = M

(***************************************************************************)
(* C3: dependency closure: for an entry naming a workspace package C with  *)
(* a bump-kind or an explicit version, a missing-dependencies error is     *)
(* recorded for C exactly when the set of changed workspace packages that  *)
(* C declares and that have no entry or a null entry is non-empty; the     *)
(* error names exactly that set, and validation succeeds only when the set *)
(* is empty for every released entry.                                      *)
(***************************************************************************)
C3_DependencyClosure ==
  (Done /\ MappingDocument) =>
    \A i \in DOMAIN DocumentEntries :
      LET C == DocumentEntries[i][1]
          v == DocumentEntries[i][2]
      IN  (C \in KnownNames /\ IsRelease(v)) =>
            LET D == OmittedDependencies(C, OmittedOrSkipped)
            IN  /\ (ErrorsOf("missingDependencies", C) # {}) <=> (D # {})
                /\ \A e \in ErrorsOf("missingDependencies", C) :
                     Range(result.errors[e].names) = D
                /\ result.kind = "returned" => D = {}

(***************************************************************************)
(* C4: an entry whose directive is `intentionally-skip` is never named as  *)
(* a missing dependent or a missing dependency in any error, and no        *)
(* missing-dependents or missing-dependencies error is recorded for its    *)
(* own package.                                                            *)
(***************************************************************************)
IntentionallySkipped(name) ==
  name \in DocumentNames /\ DocumentValue(name) = Str("intentionally-skip")

C4_IntentionallySkipExempts ==
  Done =>
    \A i \in DOMAIN result.errors :
      LET e == result.errors[i]
      IN  e.kind \in {"missingDependents", "missingDependencies"} =>
            /\ ~IntentionallySkipped(e.name)
            /\ \A n \in Range(e.names) : ~IntentionallySkipped(n)

\* a major bump of a has two changed dependents, b deliberately skipped and c
\* left out: the error names c alone
C4_Witness ==
  /\ Done
  /\ IntentionallySkipped("b")
  /\ {"b", "c"} \subseteq ChangedNames
  /\ \E i \in ErrorsOf("missingDependents", "a") : result.errors[i].names = <<"c">>

(***************************************************************************)
(* C5: an entry whose name is no key of workspacePackages gets exactly one *)
(* error, the unknown-package error, and no other rule is applied to it,   *)
(* whatever its value.                                                     *)
(***************************************************************************)
C5_UnknownPackageOneError ==
  (Done /\ MappingDocument) =>
    \A i \in DOMAIN DocumentEntries :
      LET name == DocumentEntries[i][1]
      IN  name \notin KnownNames =>
            /\ result.kind = "invalid"
            /\ Cardinality(ErrorsAbout(name)) = 1
            /\ ErrorsOf("unknownPackage", name) = ErrorsAbout(name)

(***************************************************************************)
(* C6: for an entry naming a workspace package with an explicit version v  *)
(* and current version c, the "already at version" error is recorded       *)
(* exactly when v = c, the "is at a greater version" error exactly when    *)
(* v < c, and neither when v > c; every absolute version of a returned     *)
(* ReleaseSpecification is strictly greater than the current version.      *)
(***************************************************************************)
\* a < b for version triples
VersionLess(a, b) ==
  \/ a[1] < b[1]
  \/ a[1] = b[1] /\ a[2] < b[2]
  \/ a[1] = b[1] /\ a[2] = b[2] /\ a[3] < b[3]

C6_MonotonicVersionCheck ==
  (Done /\ MappingDocument) =>
    /\ \A i \in DOMAIN DocumentEntries :
         LET name == DocumentEntries[i][1]
             v == DocumentEntries[i][2]
         IN  (name \in KnownNames /\ IsExplicitVersion(v)) =>
               LET c == SemVerParse(PackageNamed(name).version)
               IN  /\ (ErrorsOf("alreadyAtVersion", name) # {}) <=> (SemVerParse(v.s) = c)
                   /\ (ErrorsOf("greaterVersion", name) # {})
                        <=> VersionLess(SemVerParse(v.s), c)
    /\ \A j \in DOMAIN result.packages :
         result.packages[j][2].k = "semver" =>
           VersionLess(SemVerParse(PackageNamed(result.packages[j][1]).version),
                       result.packages[j][2].version)

(***************************************************************************)
(* C7: validation fails with the malformed-document failure, and records   *)
(* no per-entry errors, when the text is no structured data, parses to     *)
(* something that is no object, parses to an object without `packages`, or *)
(* parses to an object whose `packages` is no mapping (null, a string, a   *)
(* list).                                                                  *)
(***************************************************************************)
C7_MalformedDocument ==
  (Done /\ ~MappingDocument) =>
    result.kind = "malformed" /\ result.errors = <<>>

(***************************************************************************)
(* C8: when validation records no errors, the returned packages hold       *)
(* exactly the names whose directive is major, minor, patch or an explicit *)
(* version, each mapped to the same bump-kind or to the parsed form of the *)
(* same version; names with a null or `intentionally-skip` directive are   *)
(* absent; and path is the path passed in.                                 *)
(***************************************************************************)
\* the entry lines of the file, as written
FileEntryLines == SelectSeq(file, LAMBDA line : line.kind = "entry")

\* major.minor.patch of a parsed version, as text
VersionText(version) ==
  ToString(version[1]) \o "." \o ToString(version[2]) \o "." \o ToString(version[3])

C8_ReturnedSpecification ==
  (Done /\ result.kind = "returned") =>
    /\ result.path = ReleaseSpecificationPath
    /\ \A i, j \in DOMAIN result.packages :
         result.packages[i][1] = result.packages[j][1] => i = j
    /\ { result.packages[i][1] : i \in DOMAIN result.packages }
         = { l.name : l \in { m \in Range(FileEntryLines) :
                                m.text \in {"major", "minor", "patch"} \cup VersionStrings } }
    /\ \A i \in DOMAIN result.packages :
         \E l \in Range(FileEntryLines) :
           /\ l.name = result.packages[i][1]
           /\ l.text \notin {"null", "intentionally-skip"}
           /\ \/ /\ result.packages[i][2].k = "part"
                 /\ result.packages[i][2].part = l.text
              \/ /\ result.packages[i][2].k = "semver"
                 /\ VersionText(result.packages[i][2].version) = l.text

\* c is released at an explicit version and its changed dependency b is
\* deliberately skipped
C8_Witness ==
  /\ Done
  /\ result.kind = "returned"
  /\ Len(FileEntryLines) = 2
  /\ \E l \in Range(FileEntryLines) : l.text = "intentionally-skip"
  /\ \E i \in DOMAIN result.packages : result.packages[i][2].k = "semver"

(***************************************************************************)
(* C9: round trip: for a project with at least one changed workspace       *)
(* package, the generated template, validated unedited against the same    *)
(* project, records no errors and yields empty packages.                   *)
(***************************************************************************)
C9_RoundTrip ==
  (Done /\ file = template.lines) =>
    /\ result.kind = "returned"
    /\ result.errors = <<>>
    /\ result.packages = <<>>

C9_Witness ==
  /\ Done
  /\ file = template.lines
  /\ Cardinality(ChangedNames) >= 2

(***************************************************************************)
(* C10: template generation fails exactly when no workspace package has    *)
(* changed, and then returns no document; otherwise the `packages` mapping *)
(* of the document has exactly the changed workspace packages as keys, not *)
(* the root package, each with the skip directive (null), in the order of  *)
(* workspacePackages.                                                      *)
(***************************************************************************)
\* position of a name in workspacePackages
WorkspaceIndex(name) ==
  CHOOSE i \in DOMAIN project.workspacePackages : project.workspacePackages[i].name = name

C10_TemplateListsChangedPackages ==
  pc # "start" =>
    /\ template.threw <=> ChangedNames = {}
    /\ template.threw => template.lines = <<>>
    /\ ~template.threw =>
         LET parsed == YamlParse(template.lines)
         IN  /\ parsed.t = "object" /\ parsed.hasPackages /\ parsed.packages.t = "map"
             /\ LET entries == parsed.packages.entries
                IN  /\ { entries[i][1] : i \in DOMAIN entries } = ChangedNames
                    /\ project.rootPackage \notin { entries[i][1] : i \in DOMAIN entries }
                    /\ \A i \in DOMAIN entries : entries[i][2] = NULL
                    /\ \A i, j \in DOMAIN entries :
                         i < j => WorkspaceIndex(entries[i][1]) < WorkspaceIndex(entries[j][1])

\* a and c have changed, b has not
C10_Witness ==
  /\ pc = "generated"
  /\ ~template.threw
  /\ ChangedNames = {"a", "c"}

(***************************************************************************)
(* Vocabulary of the line numbers and of the order of the errors.          *)
(***************************************************************************)
\* the file has the shape of the template: k lines beginning with `#`, one
\* empty line, the `packages:` line, then one line per package
TemplateShape ==
  \E k \in 0..Len(file) :
    /\ Len(file) >= k + 3
    /\ \A i \in 1..k : file[i].kind = "comment"
    /\ file[k + 1] = EmptyLine
    /\ file[k + 2] = KeyLine("packages", "")
    /\ \A i \in (k + 3)..Len(file) : file[i].kind = "entry"

\* the 1-based number of the line on which the entry of `name` appears
LineOfEntry(name) ==
  CHOOSE i \in DOMAIN file : file[i].kind = "entry" /\ file[i].name = name

LineNumberedKinds ==
  {"unknownPackage", "invalidSpecifier", "alreadyAtVersion", "greaterVersion"}

\* position of a rule in the order of section 4.4
RuleRank(kind) ==
  CASE kind = "unknownPackage"      -> 1
    [] kind = "invalidSpecifier"    -> 2
    [] kind = "alreadyAtVersion"    -> 3
    [] kind = "greaterVersion"      -> 3
    [] kind = "missingDependents"   -> 4
    [] kind = "missingDependencies" -> 5

(***************************************************************************)
(* C11: line attribution: for a file in the shape of the template, the     *)
(* line number of an unknown-package, invalid-directive or                 *)
(* non-increasing-version error of an entry is the 1-based number of the   *)
(* line on which that entry appears; leading comment lines and the empty   *)
(* line are not counted as the first data line.                            *)
(***************************************************************************)
C11_LineAttribution ==
  (Done /\ TemplateShape /\ result.kind = "invalid") =>
    \A e \in DOMAIN result.errors :
      result.errors[e].kind \in LineNumberedKinds =>
        result.errors[e].lineNumber = LineOfEntry(result.errors[e].name)

(***************************************************************************)
(* C12: the errors appear in the document order of their entries, and the  *)
(* errors of one entry appear in rule order: unknown package, invalid      *)
(* directive, non-increasing version, missing dependents, missing          *)
(* dependencies.                                                           *)
(***************************************************************************)
C12_ErrorOrder ==
  (Done /\ Len(result.errors) > 1 /\ MappingDocument) =>
    LET entries == DocumentEntries
        \* position in the document of the entry that error e is about
        EntryIndex == [e \in DOMAIN result.errors |->
                        CHOOSE i \in DOMAIN entries : entries[i][1] = result.errors[e].name]
    IN  \A e1, e2 \in DOMAIN result.errors :
          e1 < e2 =>
            /\ EntryIndex[e1] <= EntryIndex[e2]
            /\ result.errors[e1].name = result.errors[e2].name =>
                  RuleRank(result.errors[e1].kind) < RuleRank(result.errors[e2].kind)

\* {x: major, c: bogus} while a and b have changed: two errors of x, in rule
\* order, before the two errors of c
C12_Witness ==
  /\ Done
  /\ MappingDocument
  /\ result.kind = "invalid"
  /\ Len(result.errors) >= 3
  /\ \E e1, e2, e3 \in DOMAIN result.errors :
       /\ e1 < e2 /\ e2 < e3
       /\ result.errors[e1].name = result.errors[e2].name
       /\ result.errors[e2].name # result.errors[e3].name

(***************************************************************************)
(* C13: waitForUserToEditReleaseSpecification launches the editor command  *)
(* exactly once, writes the waiting message before it waits, and settles   *)
(* only after the editor process has exited; the line is cleared after the *)
(* exit in both outcomes; the wait rejects with a wrapped error whose      *)
(* cause is the error of the editor command whenever that command fails,   *)
(* and resolves otherwise.                                                 *)
(***************************************************************************)
C13_EditorWait ==
  LET settled == wait.state \in {"resolved", "rejected"}
  IN  /\ wait.state = "notCalled" => editor.launches = 0 /\ stdout = <<>>
      /\ wait.state # "notCalled" => editor.launches = 1
      /\ wait.state = "pending" => stdout = <<WaitingMessage>>
      /\ (pc = "waiting" /\ editor.state = "exited") => wait.state = "pending"
      /\ settled => editor.state = "exited" /\ stdout = <<WaitingMessage, ClearLine>>
      /\ settled => (wait.state = "rejected" <=> editor.error \in CommandErrors)
      /\ settled => (wait.state = "resolved" <=> editor.error = NoError)
      /\ wait.state = "rejected" =>
           /\ wait.error.cause = editor.error
           /\ wait.error.message =
                "Encountered an error while waiting for the release spec to be edited."
           /\ pc = "failed"
           /\ result = NoOutcome

\* the user saved the file and then force-quit the editor
C13_Witness ==
  /\ wait.state = "rejected"
  /\ wait.error.cause.s = "killed by SIGKILL"
  /\ file # template.lines

(***************************************************************************)
(* C14: validateReleaseSpecification changes neither the release spec file *)
(* nor the Project, whether it returns a ReleaseSpecification, fails on a  *)
(* malformed document or fails with the aggregated errors.                 *)
(***************************************************************************)
C14_ValidationChangesNothing ==
  [][(pc # "done" /\ pc' = "done") => (file' = file /\ project' = project)]_vars

\* a document with errors has been validated and is still in the file
C14_Witness ==
  /\ Done
  /\ result.kind = "invalid"
  /\ MappingDocument
  /\ Len(DocumentEntries) = MaxEntries

(***************************************************************************)
(* C15: totality of validation: for every Project and every document that  *)
(* parses to an object whose `packages` is a mapping from names to null or *)
(* strings, validateReleaseSpecification returns a ReleaseSpecification or *)
(* fails with the aggregated validation error, and with no other           *)
(* exception, also when an entry names a package that is not in the        *)
(* project and carries an explicit version.                                *)
(***************************************************************************)
C15_ValidationIsTotal ==
  (Done /\ MappingDocument) => result.kind \in {"returned", "invalid"}

(***************************************************************************)
(* C16: dependencies outside the project are ignored by the                *)
(* dependency-consistency rules: a name in the dependencies or             *)
(* peerDependencies of a released package that is no workspace package is  *)
(* never listed in a missing-dependencies error and never makes validation *)
(* fail, whether or not the document has an entry for it; a workspace      *)
(* dependency or dependent without changes since its latest release is     *)
(* never reported as missing.                                              *)
(***************************************************************************)
C16_OnlyChangedWorkspacePackagesAreMissing ==
  (Done /\ result.errors # <<>> /\ MappingDocument) =>
    /\ \A e \in DOMAIN result.errors :
         result.errors[e].kind \in {"missingDependents", "missingDependencies"} =>
           /\ result.errors[e].names # <<>>
           /\ Range(result.errors[e].names) \subseteq KnownNames \cap ChangedNames
    \* a released package fails the dependency rule only for a changed
    \* workspace package that it declares
    /\ \A i \in DOMAIN DocumentEntries :
         LET C == DocumentEntries[i][1]
         IN  (C \in KnownNames /\ DeclaredBy(C) \cap KnownNames \cap ChangedNames = {}) =>
               ErrorsOf("missingDependencies", C) = {}

\* a and c are released, the external x that a declares has no entry, and b,
\* which c declares, has no entry and no changes: validation succeeds
C16_Witness ==
  /\ Done
  /\ result.kind = "returned"
  /\ DocumentNames = {"a", "c"}
  /\ IsRelease(DocumentValue("a"))
  /\ IsRelease(DocumentValue("c"))
  /\ ExternalName \in DeclaredBy("a")
  /\ "b" \in DeclaredBy("c") /\ "b" \notin ChangedNames

====
